---- MODULE Spec2Model ----
(***************************************************************************)
(* Model of the invoice text extraction engine of pdf-to-xlsx:             *)
(*   src/src/app/api/extract/route.ts  (normalization, block split,        *)
(*                                      tidyBn, tidyValue, extractTotal,   *)
(*                                      the extraction loop of POST)       *)
(*   src/src/lib/parsers.ts            (bdPhone, findFuzzyPhoneSpan,       *)
(*                                      parseInvoiceToBlock, fallbackParse)*)
(*                                                                         *)
(* A text is a sequence of UTF-16 code units (integers), as a JavaScript   *)
(* string is; the empty string is << >>.  null / undefined is Null.        *)
(* Every regular expression of the source is an operator that computes     *)
(* what the JavaScript engine computes for it (leftmost match, greedy      *)
(* quantifiers, backtracking where it can change the result).              *)
(***************************************************************************)
EXTENDS Integers, Sequences, FiniteSets, TLC

VARIABLES
  files,     \* the uploaded files: each a sequence of text items (indices into ITEMS)
  fi,        \* index of the file being processed (for (const f of files))
  pages,     \* the pages of the current file: data.text.split("\f")
  pi,        \* index of the page being processed (pageIndex + 1)
  pageText,  \* the normalized text of the current page
  work,      \* the blocks of the current page
  bi,        \* index of the next block of work
  rows,      \* the result list
  seen,      \* history: one entry per processed block (its text and cleaned fields)
  inp,       \* single-function specifications: the input
  out,       \* single-function specifications: the result
  prev,      \* single-function specifications: the result compared with
  pc         \* position of the program

vars == <<files, fi, pages, pi, pageText, work, bi, rows, seen, inp, out, prev, pc>>

(***************************************************************************)
(* Values and character classes                                            *)
(***************************************************************************)

\* null / undefined (no code unit is negative)
Null == <<-1>>

\* JavaScript truthiness of a string | null | undefined
Truthy(s) == s # Null /\ s # <<>>

\* \s of a JavaScript regular expression; also what String.prototype.trim removes
IsWs(c) ==
  \/ c \in {9, 10, 11, 12, 13, 32, 160, 5760, 8232, 8233, 8239, 8287, 12288, 65279}
  \/ (c >= 8192 /\ c <= 8202)

\* \d
IsDigit(c) == c >= 48 /\ c <= 57

\* [A-Za-z]
IsLatin(c) == (c >= 65 /\ c <= 90) \/ (c >= 97 /\ c <= 122)

\* [A-Za-z0-9]
IsAlnum(c) == IsLatin(c) \/ IsDigit(c)

\* \w
IsWord(c) == IsAlnum(c) \/ c = 95

\* [\u0980-\u09FF]
IsBangla(c) == c >= 2432 /\ c <= 2559

\* [\u200C\u200D]
IsJoiner(c) == c = 8204 \/ c = 8205

\* [\u0981-\u0983\u09BC\u09BE-\u09CC\u09CD]
IsBnDependent(c) == (c >= 2433 /\ c <= 2435) \/ c = 2492 \/ (c >= 2494 /\ c <= 2509)

\* [0-9\u09E6-\u09EF]
IsAnyDigit(c) == IsDigit(c) \/ (c >= 2534 /\ c <= 2543)

\* [\u200B\u200C\u200D\u2060\uFEFF\u00A0]
IsZeroWidth(c) == c \in {8203, 8204, 8205, 8288, 65279, 160}

\* [,.:;]
IsPunct(c) == c \in {44, 46, 58, 59}

\* [ \t]
IsBlank(c) == c = 32 \/ c = 9

\* the /i flag on the ASCII letters
ToLower(c) == IF c >= 65 /\ c <= 90 THEN c + 32 ELSE c

(***************************************************************************)
(* String primitives                                                       *)
(***************************************************************************)

\* the index of the first code unit at or after i that is not of class P (P*)
Skip(s, i, P(_)) ==
  LET go[j \in 1..(Len(s) + 1)] ==
        IF j <= Len(s) /\ P(s[j]) THEN go[j + 1] ELSE j
  IN  IF i > Len(s) THEN i ELSE go[i]

\* \s*
SkipWs(s, i) == Skip(s, i, IsWs)

\* \d*
SkipDigits(s, i) == Skip(s, i, IsDigit)

\* [ \t]*
SkipBlanks(s, i) == Skip(s, i, IsBlank)

\* s.slice(a - 1, b): the code units a..b
Slice(s, a, b) == IF a > b THEN <<>> ELSE SubSeq(s, a, b)

\* s.slice(a - 1)
SliceFrom(s, a) == Slice(s, a, Len(s))

\* String.prototype.trim
Trim(s) ==
  LET a == SkipWs(s, 1)
      back[j \in 0..Len(s)] == IF j >= 1 /\ IsWs(s[j]) THEN back[j - 1] ELSE j
  IN  IF a > Len(s) THEN <<>> ELSE Slice(s, a, back[Len(s)])

\* lit matches s at i, ignoring case (lit is written in lower case)
LitAtI(s, i, lit) ==
  /\ i >= 1
  /\ i + Len(lit) - 1 <= Len(s)
  /\ \A k \in 1..Len(lit) : ToLower(s[i + k - 1]) = lit[k]

\* keep the code units that satisfy Keep
Filter(s, Keep(_)) == SelectSeq(s, Keep)

\* regex.exec(s): <<start, end>> of the leftmost match, or <<0, 0>>.
\* MatchEnd(j) is the end of the match that starts at j, or 0 when none does.
FirstMatch(s, MatchEnd(_)) ==
  LET ends == [j \in 1..Len(s) |-> MatchEnd(j)]
      ms   == SelectSeq([j \in 1..Len(s) |-> j], LAMBDA j : ends[j] > 0)
  IN  IF ms = <<>> THEN <<0, 0>> ELSE <<ms[1], ends[ms[1]]>>

\* the last element of Array.from(s.matchAll(regex)): <<start, end>>, or <<0, 0>>.
\* The matches are taken left to right, each search resuming after the last match.
LastMatch(s, MatchEnd(_)) ==
  LET ends == [j \in 1..Len(s) |-> MatchEnd(j)]
      ms   == SelectSeq([j \in 1..Len(s) |-> j], LAMBDA j : ends[j] > 0)
      go[k \in 1..(Len(ms) + 1), i \in 1..(Len(s) + 1), a \in 0..Len(s)] ==
        IF k > Len(ms) THEN a
        ELSE IF ms[k] < i THEN go[k + 1, i, a]
        ELSE go[k + 1, ends[ms[k]] + 1, ms[k]]
      r == go[1, 1, 0]
  IN  IF r = 0 THEN <<0, 0>> ELSE <<r, ends[r]>>

\* m ? m[0] : null, for the match m of a search in s
MatchText(s, m) == IF m[1] = 0 THEN Null ELSE Slice(s, m[1], m[2])

\* s.replace(regex /g, ...): the matches are taken left to right, each search
\* resuming after the last match; the match a..b is replaced by Repl(a, b)
ReplaceAll(s, MatchEnd(_), Repl(_, _)) ==
  LET ends == [j \in 1..Len(s) |-> MatchEnd(j)]
      ms   == SelectSeq([j \in 1..Len(s) |-> j], LAMBDA j : ends[j] > 0)
      go[k \in 1..(Len(ms) + 1), i \in 1..(Len(s) + 1)] ==
        IF k > Len(ms) THEN SliceFrom(s, i)
        ELSE IF ms[k] < i THEN go[k + 1, i]
        ELSE Slice(s, i, ms[k] - 1) \o Repl(ms[k], ends[ms[k]]) \o go[k + 1, ends[ms[k]] + 1]
  IN  go[1, 1]

\* s.replace(regex without /g, ...): the leftmost match only
ReplaceFirst(s, MatchEnd(_), Repl(_, _)) ==
  LET m == FirstMatch(s, MatchEnd) IN
  IF m[1] = 0 THEN s
  ELSE Slice(s, 1, m[1] - 1) \o Repl(m[1], m[2]) \o SliceFrom(s, m[2] + 1)

\* end of a match of /(L)\s+(?=R)/ that starts at i, or 0
GapEnd(s, i, L(_), R(_)) ==
  LET k == SkipWs(s, i + 1) IN
  IF L(s[i]) /\ k > i + 1 /\ k <= Len(s) /\ R(s[k]) THEN k - 1 ELSE 0

\* s.replace(/(L)\s+(?=R)/g, "$1"): delete every whitespace run that follows a
\* code unit of class L and is followed by a code unit of class R
StripGaps(s, L(_), R(_)) ==
  ReplaceAll(s, LAMBDA j : GapEnd(s, j, L, R), LAMBDA a, b : <<s[a]>>)

\* end of a match of /\s*c\s*/ that starts at i, or 0
AroundEnd(s, i, c) ==
  LET k == SkipWs(s, i) IN
  IF k <= Len(s) /\ s[k] = c THEN SkipWs(s, k + 1) - 1 ELSE 0

\* s.replace(/\s*c\s*/g, repl): every code unit c, with the whitespace around it
ReplaceAround(s, c, repl) ==
  ReplaceAll(s, LAMBDA j : AroundEnd(s, j, c), LAMBDA a, b : repl)

\* s.split(sep) for a one-code-unit separator
SplitOn(s, sep) ==
  LET ps == SelectSeq([j \in 1..Len(s) |-> j], LAMBDA j : s[j] = sep)
  IN  [k \in 1..(Len(ps) + 1) |->
         Slice(s, IF k = 1 THEN 1 ELSE ps[k - 1] + 1,
                  IF k > Len(ps) THEN Len(s) ELSE ps[k] - 1)]

\* lines.map((s) => s.trim()).filter(Boolean)
TrimmedNonEmpty(ss) ==
  LET t == [k \in 1..Len(ss) |-> Trim(ss[k])]
  IN  SelectSeq(t, LAMBDA x : x # <<>>)

\* xs.join(sep)
Join(xs, sep) ==
  LET go[k \in 1..(Len(xs) + 1)] ==
        IF k > Len(xs) THEN <<>>
        ELSE IF k = Len(xs) THEN xs[k]
        ELSE xs[k] \o sep \o go[k + 1]
  IN  go[1]

(***************************************************************************)
(* Page normalization (route.ts 109-128)                                   *)
(***************************************************************************)

\* rawPageText.normalize("NFC"): canonical composition.  The pairs that compose
\* among the code units the model draws from: e + U+0301 -> U+00E9, and the
\* Bangla vowel signs U+09C7 + U+09BE -> U+09CB, U+09C7 + U+09D7 -> U+09CC.
NFC(s) ==
  LET Composed(a, b) ==
        IF a = 101 /\ b = 769 THEN 233
        ELSE IF a = 2503 /\ b = 2494 THEN 2507
        ELSE IF a = 2503 /\ b = 2519 THEN 2508
        ELSE 0
  IN  ReplaceAll(s,
        LAMBDA j : IF j < Len(s) /\ Composed(s[j], s[j + 1]) > 0 THEN j + 1 ELSE 0,
        LAMBDA a, b : <<Composed(s[a], s[b])>>)

\* end of a match of /((?:[A-Za-z]\s+){2,}[A-Za-z])/ that starts at i, or 0.
\* Greedy: as many "letter whitespace+" groups as there are; the closing letter
\* is the next letter or, by backtracking one group, the last group's letter.
SpacedRunEnd(s, i) ==
  LET go[j \in 1..(Len(s) + 1), g \in 0..Len(s), p \in 0..Len(s)] ==
        IF j <= Len(s) /\ IsLatin(s[j])
        THEN LET k == SkipWs(s, j + 1) IN
             IF k > j + 1 THEN go[k, g + 1, j]
             ELSE IF g >= 2 THEN j ELSE 0
        ELSE IF g >= 3 THEN p ELSE 0
  IN  go[i, 0, 0]

\* pageText.replace(/((?:[A-Za-z]\s+){2,}[A-Za-z])/g, (run) => run.replace(/\s+/g, ""))
CollapseSpacedLatin(s) ==
  ReplaceAll(s, LAMBDA j : SpacedRunEnd(s, j),
                LAMBDA a, b : Filter(Slice(s, a, b), LAMBDA c : ~IsWs(c)))

\* pageText.replace(/(\d)\s+(?=\d)/g, "$1")
CollapseDigitGaps(s) == StripGaps(s, IsDigit, IsDigit)

\* pageText.replace(/([A-Za-z0-9])\s+(?=[,.:;])/g, "$1")
TightenPunct(s) == StripGaps(s, IsAlnum, IsPunct)

\* pageText.replace(/\s+(?=\))/g, "")
TightenCloseParen(s) ==
  ReplaceAll(s,
    LAMBDA j : LET k == SkipWs(s, j) IN
               IF k > j /\ k <= Len(s) /\ s[k] = 41 THEN k - 1 ELSE 0,
    LAMBDA a, b : <<>>)

\* pageText.replace(/(?<=\()\s+/g, "")
TightenOpenParen(s) ==
  ReplaceAll(s,
    LAMBDA j : IF j > 1 /\ s[j - 1] = 40 /\ IsWs(s[j]) THEN SkipWs(s, j) - 1 ELSE 0,
    LAMBDA a, b : <<>>)

\* pageText.replace(/([\u0980-\u09FF])\s+(?=[\u200C\u200D])/g, "$1")
TightenBeforeJoiner(s) == StripGaps(s, IsBangla, IsJoiner)

\* pageText.replace(/([\u200C\u200D])\s+(?=[\u0980-\u09FF])/g, "$1")
TightenAfterJoiner(s) == StripGaps(s, IsJoiner, IsBangla)

\* pageText.replace(/[ \t]+/g, " ")
CollapseBlanks(s) ==
  ReplaceAll(s, LAMBDA j : IF IsBlank(s[j]) THEN SkipBlanks(s, j) - 1 ELSE 0,
                LAMBDA a, b : <<32>>)

\* pageText.replace(/[ \t]*\n[ \t]*/g, "\n")
TightenNewlines(s) ==
  ReplaceAll(s,
    LAMBDA j : LET k == SkipBlanks(s, j) IN
               IF k <= Len(s) /\ s[k] = 10 THEN SkipBlanks(s, k + 1) - 1 ELSE 0,
    LAMBDA a, b : <<10>>)

\* pageText.replace(/\n\n/g, "\n"): newlines collapsed pair by pair
CollapseNewlinePairs(s) ==
  ReplaceAll(s,
    LAMBDA j : IF s[j] = 10 /\ j < Len(s) /\ s[j + 1] = 10 THEN j + 1 ELSE 0,
    LAMBDA a, b : <<10>>)

\* pageText.replace(/\n{2,}/g, "\n")
CollapseNewlines(s) ==
  ReplaceAll(s,
    LAMBDA j : IF s[j] = 10 /\ j < Len(s) /\ s[j + 1] = 10
               THEN Skip(s, j, LAMBDA c : c = 10) - 1 ELSE 0,
    LAMBDA a, b : <<10>>)

\* the normalization of one raw page, in the order of the source
NormalizePage(raw) ==
  LET t0 == NFC(raw)
      t1 == CollapseSpacedLatin(t0)
      t2 == CollapseDigitGaps(t1)
      t3 == TightenPunct(t2)
      t4 == TightenCloseParen(t3)
      t5 == TightenOpenParen(t4)
      t6 == TightenBeforeJoiner(t5)
      t7 == TightenAfterJoiner(t6)
      t8 == CollapseBlanks(t7)
      t9 == TightenNewlines(t8)
  IN  CollapseNewlines(t9)

(***************************************************************************)
(* Output-field cleanup (route.ts 14-43)                                   *)
(***************************************************************************)

\* .replace(/[ \t]{2,}/g, " "): a run of two or more blanks becomes one space
CollapseBlankRuns(s) ==
  ReplaceAll(s, LAMBDA j : IF SkipBlanks(s, j) >= j + 2 THEN SkipBlanks(s, j) - 1 ELSE 0,
                LAMBDA a, b : <<32>>)

\* .replace(/\s{2,}/g, " "): a run of two or more whitespace becomes one space
CollapseWsRuns(s) ==
  ReplaceAll(s, LAMBDA j : IF SkipWs(s, j) >= j + 2 THEN SkipWs(s, j) - 1 ELSE 0,
                LAMBDA a, b : <<32>>)

\* tidyBn: Bangla/Latin tidy for output fields
tidyBn(s) ==
  LET t0 == NFC(IF s = Null THEN <<>> ELSE s)
      t1 == Filter(t0, LAMBDA c : ~IsZeroWidth(c))
      t2 == StripGaps(t1, IsBangla, IsBnDependent)
      t3 == StripGaps(t2, IsBnDependent, IsBangla)
      t4 == StripGaps(t3, IsAnyDigit, IsAnyDigit)
      t5 == ReplaceAround(t4, 44, <<44, 32>>)
      t6 == ReplaceAround(t5, 58, <<58>>)
      t7 == ReplaceAround(t6, 2404, <<2404, 32>>)
      t8 == ReplaceAround(t7, 2435, <<2435>>)
      t9 == CollapseBlankRuns(t8)
  IN  Trim(t9)

\* "tk"
LitTk == <<116, 107>>
\* "bdt"
LitBdt == <<98, 100, 116>>
\* the taka sign
Taka == 2547

\* length of a match of (?:৳|Tk|BDT) at i under the /i flag, or 0
SymLenAt(s, i) ==
  IF i >= 1 /\ i <= Len(s) /\ s[i] = Taka THEN 1
  ELSE IF LitAtI(s, i, LitTk) THEN 2
  ELSE IF LitAtI(s, i, LitBdt) THEN 3
  ELSE 0

\* end of a match of \d+(?:\.\d{1,2})? that starts at i, or 0
NumberEnd(s, i) ==
  LET d == SkipDigits(s, i) IN
  IF d = i THEN 0
  ELSE IF d < Len(s) /\ s[d] = 46 /\ IsDigit(s[d + 1])
       THEN IF d + 2 <= Len(s) /\ IsDigit(s[d + 2]) THEN d + 2 ELSE d + 1
  ELSE d - 1

\* tidyValue without the cleanup: the captured text as it is
tidyValueRaw(s) == IF ~Truthy(s) THEN Null ELSE s

\* tidyValue: normalize a captured currency amount
tidyValue(s) ==
  IF ~Truthy(s) THEN Null
  ELSE LET raw == Filter(s, LAMBDA c : c # 44 /\ ~IsWs(c))
           n   == SymLenAt(raw, 1)
           e   == NumberEnd(raw, n + 1)
       IN  IF e = 0 \/ e # Len(raw) THEN Null
           ELSE (IF n = 0 THEN <<Taka>> ELSE Slice(raw, 1, n)) \o Slice(raw, n + 1, e)

(***************************************************************************)
(* extractTotal (route.ts 47-71)                                           *)
(***************************************************************************)

\* "total"
LitTotal == <<116, 111, 116, 97, 108>>

\* [\d,]*
SkipDigitsCommas(s, i) == Skip(s, i, LAMBDA c : IsDigit(c) \/ c = 44)

\* end of a match of [\d,]+(?:\.\d{1,2})? that starts at i, or 0
AmountEnd(s, i) ==
  LET d == SkipDigitsCommas(s, i) IN
  IF d = i THEN 0
  ELSE IF d < Len(s) /\ s[d] = 46 /\ IsDigit(s[d + 1])
       THEN IF d + 2 <= Len(s) /\ IsDigit(s[d + 2]) THEN d + 2 ELSE d + 1
  ELSE d - 1

\* a match of /Total\s*[:\-]?\s*((?:sym)?\s*[\d,]+(?:\.\d{1,2})?)/i that starts at i:
\* <<start of group 1, end of the match>>, or <<0, 0>>
TotalMatchAt(s, i) ==
  IF ~LitAtI(s, i, LitTotal) THEN <<0, 0>>
  ELSE LET j1 == SkipWs(s, i + 5)
           j2 == IF j1 <= Len(s) /\ s[j1] \in {58, 45} THEN j1 + 1 ELSE j1
           g  == SkipWs(s, j2)
           j4 == SkipWs(s, g + SymLenAt(s, g))
           e  == AmountEnd(s, j4)
       IN  IF e = 0 THEN <<0, 0>> ELSE <<g, e>>

\* a match of /(?:sym)\s*[\d,]+(?:\.\d{1,2})?/i that starts at i: its end, or 0
CurrencyMatchEnd(s, i) ==
  LET n == SymLenAt(s, i) IN
  IF n = 0 THEN 0 ELSE AmountEnd(s, SkipWs(s, i + n))

\* group 1 of the match m of the total expression in s, or Null
TotalGroup(s, m) == IF m[1] = 0 THEN Null ELSE Slice(s, TotalMatchAt(s, m[1])[1], m[2])

\* group 1 of the last element of Array.from(text.matchAll(total regex)), or Null
LastTotalGroup(s) == TotalGroup(s, LastMatch(s, LAMBDA j : TotalMatchAt(s, j)[2]))

\* the last element of Array.from(text.matchAll(currency regex)), or Null
LastCurrencyMatch(s) == MatchText(s, LastMatch(s, LAMBDA j : CurrencyMatchEnd(s, j)))

\* the total when a Total label gave rawVal, else the last currency-like token cur
TotalOf(rawVal, cur) ==
  IF rawVal # Null
  THEN tidyValue(IF SymLenAt(rawVal, 1) > 0 THEN rawVal ELSE <<Taka>> \o rawVal)
  ELSE IF cur # Null THEN tidyValue(cur) ELSE Null

\* extractTotal: the total of a block (or page) text
extractTotal(text) == TotalOf(LastTotalGroup(text), LastCurrencyMatch(text))

(***************************************************************************)
(* Phone matching (parsers.ts 15-36)                                       *)
(***************************************************************************)

\* s.replace(/[^\d]/g, ""): keep only digits
onlyDigits(s) == Filter(s, IsDigit)

\* onlyDigitsPlus: keep only digits and +
onlyDigitsPlus(s) == Filter(s, LAMBDA c : IsDigit(c) \/ c = 43)

\* n digits, each after optional whitespace when fuzzy, starting at i:
\* the index of the last of them, or 0
DigitsEnd(s, i, n, fuzzy) ==
  LET go[j \in 1..(Len(s) + 1), k \in 0..n] ==
        IF k = 0 THEN j - 1
        ELSE LET d == IF fuzzy THEN SkipWs(s, j) ELSE j IN
             IF d <= Len(s) /\ IsDigit(s[d]) THEN go[d + 1, k - 1] ELSE 0
  IN  IF i > Len(s) THEN 0 ELSE go[i, n]

\* 1[3-9]\d{8} (with \s* before each when fuzzy) starting at i: its end, or 0
SubscriberEnd(s, i, fuzzy) ==
  LET a == IF fuzzy THEN SkipWs(s, i) ELSE i
      b == IF fuzzy THEN SkipWs(s, a + 1) ELSE a + 1
  IN  IF a <= Len(s) /\ s[a] = 49 /\ b <= Len(s) /\ s[b] >= 51 /\ s[b] <= 57
      THEN DigitsEnd(s, b + 1, 8, fuzzy)
      ELSE 0

\* end of a match of /(?:(?:\+?880)|0)1[3-9]\d{8}/ that starts at i, or 0
BdPhoneEnd(s, i) ==
  LET j == IF s[i] = 43 THEN i + 1 ELSE i IN
  IF j + 2 <= Len(s) /\ s[j] = 56 /\ s[j + 1] = 56 /\ s[j + 2] = 48
  THEN SubscriberEnd(s, j + 3, FALSE)
  ELSE IF s[i] = 48 THEN SubscriberEnd(s, i + 1, FALSE)
  ELSE 0

\* the first BD number in only, or Null
FirstBdPhone(only) == MatchText(only, FirstMatch(only, LAMBDA j : BdPhoneEnd(only, j)))

\* bdPhone: the first BD number in the digits (and +) of s, or Null
bdPhone(s) == FirstBdPhone(onlyDigitsPlus(s))

\* end of a match of the fuzzy expression
\* /(?:(?:\+?\s*8\s*8\s*0)|0)\s*1\s*[3-9]\s*\d ... \s*\d/ that starts at i, or 0
FuzzyPhoneEnd(s, i) ==
  LET j0 == IF s[i] = 43 THEN i + 1 ELSE i
      j1 == SkipWs(s, j0)
      j2 == SkipWs(s, j1 + 1)
      j3 == SkipWs(s, j2 + 1)
  IN  IF j3 <= Len(s) /\ s[j1] = 56 /\ s[j2] = 56 /\ s[j3] = 48
      THEN SubscriberEnd(s, j3 + 1, TRUE)
      ELSE IF s[i] = 48 THEN SubscriberEnd(s, i + 1, TRUE)
      ELSE 0

\* the null result of findFuzzyPhoneSpan
NoSpan == [normalized |-> Null, index |-> 0, length |-> 0]

\* normalized ? { normalized, index: m.index, length: m[0].length } : null
NormalizedSpan(m, normalized) ==
  IF m[1] = 0 \/ normalized = Null THEN NoSpan
  ELSE [normalized |-> normalized, index |-> m[1], length |-> m[2] - m[1] + 1]

\* the span of the match m of the fuzzy expression in s
MatchedSpan(s, m) == NormalizedSpan(m, bdPhone(IF m[1] = 0 THEN <<>> ELSE Slice(s, m[1], m[2])))

\* findFuzzyPhoneSpan: [normalized, index (1-based), length] of the first match, or NoSpan
findFuzzyPhoneSpan(s) == MatchedSpan(s, FirstMatch(s, LAMBDA j : FuzzyPhoneEnd(s, j)))

(***************************************************************************)
(* parsers.ts: field markers and shape tests (38-57)                       *)
(***************************************************************************)

\* FIELD_MARKERS: the alternatives, each a list of words joined by \s*
FIELD_MARKERS ==
  << <<<<111, 114, 100, 101, 114>>, <<105, 100>>>>,   \* order id
     <<<<100, 97, 116, 101>>, <<97, 100, 100, 101, 100>>>>,   \* date added
     <<<<112, 97, 121, 109, 101, 110, 116>>, <<109, 101, 116, 104, 111, 100>>>>,   \* payment method
     <<<<115, 104, 105, 112, 112, 105, 110, 103>>, <<109, 101, 116, 104, 111, 100>>>>,   \* shipping method
     <<<<99, 105, 116, 121>>, <<99, 111, 117, 114, 105, 101, 114>>>>,   \* city courier
     <<<<112, 114, 111, 100, 117, 99, 116>>>>,   \* product
     <<<<113, 117, 97, 110, 116, 105, 116, 121>>>>,   \* quantity
     <<<<117, 110, 105, 116>>, <<112, 114, 105, 99, 101>>>>,   \* unit price
     <<<<115, 117, 98>>, <<116, 111, 116, 97, 108>>>>,   \* sub total
     <<<<116, 111, 116, 97, 108>>>>,   \* total
     <<<<97, 117, 116, 104, 111, 114, 105, 122, 101, 100>>, <<115, 105, 103, 110, 97, 116, 117, 114, 101>>>>,   \* authorized signature
     <<<<98, 100>>, <<97, 112, 112, 108, 101>>>> >> \* bd apple

\* the words ws, joined by \s*, match s at i under the /i flag: the end, or 0
WordsEnd(s, i, ws) ==
  LET go[k \in 1..(Len(ws) + 1), j \in 1..(Len(s) + 1)] ==
        IF k > Len(ws) THEN j - 1
        ELSE LET a == IF k = 1 THEN j ELSE SkipWs(s, j) IN
             IF LitAtI(s, a, ws[k]) THEN go[k + 1, a + Len(ws[k])] ELSE 0
  IN  go[1, i]

\* FIELD_MARKERS.exec(s): the index of the leftmost field marker, or 0
FirstFieldMarker(s) ==
  FirstMatch(s, LAMBDA j :
    IF \E a \in 1..Len(FIELD_MARKERS) : WordsEnd(s, j, FIELD_MARKERS[a]) > 0
    THEN j ELSE 0)[1]

\* line.split(/\s+/).filter(Boolean): the maximal runs of non-whitespace
Words(s) ==
  LET starts == SelectSeq([j \in 1..Len(s) |-> j],
                  LAMBDA j : ~IsWs(s[j]) /\ (j = 1 \/ IsWs(s[j - 1])))
  IN  [k \in 1..Len(starts) |->
         Slice(s, starts[k], Skip(s, starts[k], LAMBDA c : ~IsWs(c)) - 1)]

\* /^[A-Za-z\u0980-\u09FF][A-Za-z\u0980-\u09FF.\-'\u200C\u200D]*$/u
IsNameWord(w) ==
  /\ Len(w) >= 1
  /\ IsLatin(w[1]) \/ IsBangla(w[1])
  /\ \A k \in 2..Len(w) :
       IsLatin(w[k]) \/ IsBangla(w[k]) \/ w[k] \in {46, 45, 39} \/ IsJoiner(w[k])

\* looksLikeName: a personal name (Latin or Bangla), no digits
looksLikeName(line) ==
  LET words == Words(line) IN
  /\ line # <<>>
  /\ \A k \in 1..Len(line) : ~IsDigit(line[k])
  /\ Len(words) >= 1 /\ Len(words) <= 6
  /\ \A k \in 1..Len(words) : IsNameWord(words[k])

\* the labels of looksLikeNewField
NEW_FIELD_LABELS ==
  << <<110, 97, 109, 101>>,   \* name
     <<112, 104, 111, 110, 101>>,   \* phone
     <<109, 111, 98, 105, 108, 101>>,   \* mobile
     <<116, 101, 108>>,   \* tel
     <<101, 109, 97, 105, 108>>,   \* email
     <<97, 100, 100, 114, 101, 115, 115>>,   \* address
     <<99, 105, 116, 121>>,   \* city
     <<99, 111, 117, 110, 116, 114, 121>>,   \* country
     <<111, 114, 100, 101, 114>>,   \* order
     <<105, 110, 118, 111, 105, 99, 101>>,   \* invoice
     <<98, 105, 108, 108, 32, 116, 111>>,   \* bill to
     <<115, 104, 105, 112, 32, 116, 111>>,   \* ship to
     <<112, 97, 121, 109, 101, 110, 116>>,   \* payment
     <<115, 104, 105, 112, 112, 105, 110, 103>> >> \* shipping

\* \b lit \b matches s at i under the /i flag (lit begins and ends with a word character)
WordAt(s, i, lit) ==
  /\ LitAtI(s, i, lit)
  /\ i = 1 \/ ~IsWord(s[i - 1])
  /\ i + Len(lit) > Len(s) \/ ~IsWord(s[i + Len(lit)])

\* looksLikeNewField: the line holds the label of a new field
looksLikeNewField(line) ==
  \E j \in 1..Len(line) : \E a \in 1..Len(NEW_FIELD_LABELS) :
    WordAt(line, j, NEW_FIELD_LABELS[a])

(***************************************************************************)
(* parsers.ts: parseInvoiceToBlock (61-112) and fallbackParse (114-192)    *)
(***************************************************************************)

\* "invoice"
LitInvoice == <<105, 110, 118, 111, 105, 99, 101>>
\* "to"
LitTo == <<116, 111>>
\* "name"
LitName == <<110, 97, 109, 101>>
\* "address"
LitAddress == <<97, 100, 100, 114, 101, 115, 115>>

\* [:\-]
IsColonDash(c) == c = 58 \/ c = 45

\* end of a match of /invoice\s*to\s*[:\-]?/i that starts at i, or 0
InvoiceToEnd(s, i) ==
  LET e == WordsEnd(s, i, <<LitInvoice, LitTo>>)
      k == SkipWs(s, e + 1)
  IN  IF e = 0 THEN 0
      ELSE IF k <= Len(s) /\ IsColonDash(s[k]) THEN k ELSE k - 1

\* end of a match of /lit\s*[:\-]\s*/i that starts at i, or 0
LabelEnd(s, i, lit) ==
  LET k == SkipWs(s, i + Len(lit)) IN
  IF LitAtI(s, i, lit) /\ k <= Len(s) /\ IsColonDash(s[k])
  THEN SkipWs(s, k + 1) - 1
  ELSE 0

\* s.replace(/^lit\s*[:\-]\s*/i, "")
StripLeadingLabel(s, lit) ==
  IF s # <<>> /\ LabelEnd(s, 1, lit) > 0 THEN SliceFrom(s, LabelEnd(s, 1, lit) + 1) ELSE s

\* s.replace(/^(,|:|-)\s*/g, "")
StripLeadingPunct(s) ==
  IF s # <<>> /\ s[1] \in {44, 58, 45} THEN SliceFrom(s, SkipWs(s, 2)) ELSE s

\* s.replace(/\r/g, "")
StripCR(s) == Filter(s, LAMBDA c : c # 13)

\* {}: no field
NoFields == [name |-> Null, phone |-> Null, address |-> Null]

\* x || null
OrNull(x) == IF Truthy(x) THEN x ELSE Null

\* (cut ? text.slice(0, cut.index) : text).trim(), cut the index of a field marker or 0
HeadBefore(text, cut) == Trim(IF cut > 0 THEN Slice(text, 1, cut - 1) ELSE text)

\* lines 108-111: strip the labels left at the start of the name, collapse the address
StripLabels(name, phone, address) ==
  [name    |-> IF Truthy(name) THEN Trim(StripLeadingLabel(name, LitName)) ELSE name,
   phone   |-> phone,
   address |-> IF Truthy(address) THEN Trim(CollapseWsRuns(address)) ELSE address]

\* nameLine || (looksLikeName(before) ? before : null)
NameBefore(before, nameLine) ==
  IF nameLine # <<>> THEN nameLine
  ELSE IF looksLikeName(before) THEN before ELSE Null

\* lines 86-100: the phone was found; before and after are the texts around it
PrimaryWithPhone(phone, before, after) ==
  StripLabels(NameBefore(before, Trim(SplitOn(before, 10)[1])),
              phone,
              Trim(StripLeadingLabel(StripLeadingPunct(after), LitAddress)))

\* lines 101-106: no phone; the first line is the name, the rest the address
PrimaryWithoutPhone(lines) ==
  StripLabels(IF lines # <<>> THEN lines[1] ELSE Null,
              Null,
              IF lines # <<>> THEN OrNull(Trim(Join(Tail(lines), <<44, 32>>))) ELSE Null)

\* lines 86-111, for the result span of findFuzzyPhoneSpan(head)
PrimaryOfSpan(head, span) ==
  IF span # NoSpan
  THEN PrimaryWithPhone(span.normalized,
                        Trim(Slice(head, 1, span.index - 1)),
                        Trim(SliceFrom(head, span.index + span.length)))
  ELSE PrimaryWithoutPhone(TrimmedNonEmpty(SplitOn(head, 10)))

\* lines 76-111, for the text afterTo that follows the marker
PrimaryOfAfterTo(afterTo) ==
  LET head == HeadBefore(afterTo, FirstFieldMarker(afterTo))
  IN  PrimaryOfSpan(head, findFuzzyPhoneSpan(head))

\* lines 71-111, for the match toMatch of /invoice\s*to\s*[:\-]?\s*/i in cleaned
PrimaryOfMatch(cleaned, toMatch) ==
  IF toMatch[1] = 0 THEN NoFields
  ELSE PrimaryOfAfterTo(Trim(SliceFrom(cleaned, toMatch[2] + 1)))

\* lines 70-111, for the text without carriage returns
PrimaryOfCleaned(cleaned) ==
  PrimaryOfMatch(cleaned,
    FirstMatch(cleaned, LAMBDA j :
      IF InvoiceToEnd(cleaned, j) > 0
      THEN SkipWs(cleaned, InvoiceToEnd(cleaned, j) + 1) - 1 ELSE 0))

\* parseInvoiceToBlock
parseInvoiceToBlock(text) == PrimaryOfCleaned(StripCR(text))

\* group 1 of the match of a label expression that starts at j in line
LabelValue(line, j, lit) ==
  IF j = 0 THEN Null ELSE SliceFrom(line, LabelEnd(line, j, lit) + 1)

\* /\bName\s*[:\-]\s*(.+)$/i on a trimmed line: group 1, or Null
NameLabelValue(line) ==
  LabelValue(line,
    FirstMatch(line, LAMBDA j :
      IF (j = 1 \/ ~IsWord(line[j - 1])) /\ LabelEnd(line, j, LitName) > 0
         /\ LabelEnd(line, j, LitName) < Len(line)
      THEN Len(line) ELSE 0)[1],
    LitName)

\* /\bAddress\b\s*[:\-]\s*(.+)$/i on a trimmed line: group 1, or Null
AddressLabelValue(line) ==
  LabelValue(line,
    FirstMatch(line, LAMBDA j :
      IF WordAt(line, j, LitAddress) /\ LabelEnd(line, j, LitAddress) > 0
         /\ LabelEnd(line, j, LitAddress) < Len(line)
      THEN Len(line) ELSE 0)[1],
    LitAddress)

\* xs.slice(0, n)
Take(xs, n) == Slice(xs, 1, IF Len(xs) < n THEN Len(xs) ELSE n)

\* the first element of a list, or Null
FirstOf(ys) == IF ys = <<>> THEN Null ELSE ys[1]

\* the last element of a list, or Null
LastOf(ys) == IF ys = <<>> THEN Null ELSE ys[Len(ys)]

\* (m[1] ?? "").trim() when the label matched and that is not empty, else Null
TrimmedValue(v) == IF v = Null THEN Null ELSE OrNull(Trim(v))

\* lines 127-139: the name given by the first line with a non-blank Name label
LabelledName(lines) ==
  FirstOf(SelectSeq([k \in 1..Len(lines) |-> TrimmedValue(NameLabelValue(lines[k]))],
                    LAMBDA v : v # Null))

\* lines 141-155: else the nearest name-shaped line above the phone
FallbackName(cleaned, name, phone, span) ==
  IF name # Null THEN name
  ELSE IF phone # Null /\ span # NoSpan
       THEN LastOf(SelectSeq(TrimmedNonEmpty(SplitOn(Slice(cleaned, 1, span.index - 1), 10)),
                             looksLikeName))
  ELSE Null

\* lines 163-168: the label's value and the lines after line ai, up to line stop
LabelledLines(lines, ai, stop) ==
  Trim(Join(<<AddressLabelValue(lines[ai])>>
            \o Slice(lines, ai + 1, IF stop = 0 THEN Len(lines) ELSE stop - 1),
            <<44, 32>>))

\* lines 160-171, for the index ai of the first line with an Address label (or 0)
AddressAt(lines, ai) ==
  IF ai = 0 THEN Null
  ELSE LabelledLines(lines, ai,
         FirstMatch(lines, LAMBDA k :
           IF k > ai /\ looksLikeNewField(lines[k]) THEN k ELSE 0)[1])

\* lines 157-171: the address given by an Address label
LabelledAddress(lines) ==
  AddressAt(lines,
    FirstMatch(lines, LAMBDA k : IF AddressLabelValue(lines[k]) # Null THEN k ELSE 0)[1])

\* lines 180-187: at most three lines after the phone
AddressAfter(address, linesAfter) ==
  IF linesAfter # <<>>
  THEN Trim(CollapseWsRuns(Join(Take(linesAfter, 3), <<44, 32>>)))
  ELSE address

\* lines 177-180: the lines after the phone, up to the next field marker
LinesAfter(after) ==
  TrimmedNonEmpty(SplitOn(HeadBefore(after, FirstFieldMarker(after)), 10))

\* lines 173-189: else the text after the phone
FallbackAddress(cleaned, address, phone, span) ==
  IF ~Truthy(address) /\ phone # Null /\ span # NoSpan
  THEN AddressAfter(address, LinesAfter(SliceFrom(cleaned, span.index + span.length)))
  ELSE address

\* lines 120-191, for the lines, the phone and the phone span of cleaned
FallbackOf(cleaned, lines, phone, span) ==
  [name    |-> FallbackName(cleaned, LabelledName(lines), phone, span),
   phone   |-> phone,
   address |-> FallbackAddress(cleaned, LabelledAddress(lines), phone, span)]

\* lines 119-191, for the text without carriage returns
FallbackOfCleaned(cleaned) ==
  FallbackOf(cleaned, TrimmedNonEmpty(SplitOn(cleaned, 10)),
             bdPhone(cleaned), findFuzzyPhoneSpan(cleaned))

\* fallbackParse
fallbackParse(text) == FallbackOfCleaned(StripCR(text))

(***************************************************************************)
(* route.ts: block split (130-139) and the junk-name test (155)            *)
(***************************************************************************)

\* "Invoice To: "
InvoiceToPrefix == <<73, 110, 118, 111, 105, 99, 101, 32, 84, 111, 58, 32>>

\* pageText.split(splitRe): the texts around the matches of
\* /Invoice\s*To\s*[:\-]?|InvoiceTo\s*[:\-]?/i
SplitOnMarker(s) ==
  LET ends == [j \in 1..Len(s) |-> InvoiceToEnd(s, j)]
      ms   == SelectSeq([j \in 1..Len(s) |-> j], LAMBDA j : ends[j] > 0)
  IN  [k \in 1..(Len(ms) + 1) |->
         Slice(s, IF k = 1 THEN 1 ELSE ends[ms[k - 1]] + 1,
                  IF k > Len(ms) THEN Len(s) ELSE ms[k] - 1)]

\* blocks.length ? blocks : [pageText], blocks = parts.map((s) => "Invoice To: " + s)
WorkOf(text, parts) ==
  IF parts # <<>> THEN [k \in 1..Len(parts) |-> InvoiceToPrefix \o parts[k]] ELSE <<text>>

\* the blocks of a page
BlocksOf(text) == WorkOf(text, TrimmedNonEmpty(SplitOnMarker(text)))

\* /^(\d+\s*)?invoice$/.test(name): without the i flag
isInvoiceNameExact(name) ==
  LET d == SkipDigits(name, 1)
      k == IF d > 1 THEN SkipWs(name, d) ELSE 1
  IN  k + 6 = Len(name) /\ SubSeq(name, k, k + 6) = LitInvoice

\* /^(\d+\s*)?invoice$/i.test(name)
isInvoiceName(name) ==
  LET d == SkipDigits(name, 1)
      k == IF d > 1 THEN SkipWs(name, d) ELSE 1
  IN  LitAtI(name, k, LitInvoice) /\ k + 6 = Len(name)

(***************************************************************************)
(* route.ts: POST (73-179)                                                 *)
(***************************************************************************)

\* the text items (tc.items) that the uploaded PDFs are made of: str and hasEOL.
\* A form feed stands where pdf-parse ends a page.
ITEMS ==
  <<
     \* 1: "Invoice To:"
     [str |-> <<73, 110, 118, 111, 105, 99, 101, 32, 84, 111, 58>>,
      hasEOL |-> FALSE],
     \* 2: "John Doe"
     [str |-> <<74, 111, 104, 110, 32, 68, 111, 101>>,
      hasEOL |-> FALSE],
     \* 3: "Invoice"
     [str |-> <<73, 110, 118, 111, 105, 99, 101>>,
      hasEOL |-> FALSE],
     \* 4: "01712345678"
     [str |-> <<48, 49, 55, 49, 50, 51, 52, 53, 54, 55, 56>>,
      hasEOL |-> FALSE],
     \* 5: "Total: ৳970"
     [str |-> <<84, 111, 116, 97, 108, 58, 32, 2547, 57, 55, 48>>,
      hasEOL |-> FALSE],
     \* 6: "\f"
     [str |-> <<12>>,
      hasEOL |-> FALSE],
     \* 7: "Invoice To: Rahima Begum", end of line
     [str |-> <<73, 110, 118, 111, 105, 99, 101, 32, 84, 111, 58, 32, 82, 97, 104, 105, 109, 97, 32, 66, 101, 103, 117, 109>>,
      hasEOL |-> TRUE],
     \* 8: "House 5, Road 2, Dhaka 1212"
     [str |-> <<72, 111, 117, 115, 101, 32, 53, 44, 32, 82, 111, 97, 100, 32, 50, 44, 32, 68, 104, 97, 107, 97, 32, 49, 50, 49, 50>>,
      hasEOL |-> FALSE],
     \* 9: "Order ID: 99"
     [str |-> <<79, 114, 100, 101, 114, 32, 73, 68, 58, 32, 57, 57>>,
      hasEOL |-> FALSE],
     \* 10: "Payment Method: Cash"
     [str |-> <<80, 97, 121, 109, 101, 110, 116, 32, 77, 101, 116, 104, 111, 100, 58, 32, 67, 97, 115, 104>>,
      hasEOL |-> FALSE],
     \* 11: "8801812345678"
     [str |-> <<56, 56, 48, 49, 56, 49, 50, 51, 52, 53, 54, 55, 56>>,
      hasEOL |-> FALSE],
     \* 12: "Rahima Begum"
     [str |-> <<82, 97, 104, 105, 109, 97, 32, 66, 101, 103, 117, 109>>,
      hasEOL |-> FALSE],
     \* 13: "Mirpur, Dhaka 1216"
     [str |-> <<77, 105, 114, 112, 117, 114, 44, 32, 68, 104, 97, 107, 97, 32, 49, 50, 49, 54>>,
      hasEOL |-> FALSE],
     \* 14: "Name:"
     [str |-> <<78, 97, 109, 101, 58>>,
      hasEOL |-> FALSE],
     \* 15: "Karim Ahmed", end of line
     [str |-> <<75, 97, 114, 105, 109, 32, 65, 104, 109, 101, 100>>,
      hasEOL |-> TRUE],
     \* 16: "Rahim Uddin", end of line
     [str |-> <<82, 97, 104, 105, 109, 32, 85, 100, 100, 105, 110>>,
      hasEOL |-> TRUE],
     \* 17: "Address:"
     [str |-> <<65, 100, 100, 114, 101, 115, 115, 58>>,
      hasEOL |-> FALSE],
     \* 18: "Mirpur, Dhaka 1216", end of line
     [str |-> <<77, 105, 114, 112, 117, 114, 44, 32, 68, 104, 97, 107, 97, 32, 49, 50, 49, 54>>,
      hasEOL |-> TRUE],
     \* 19: "Banani, Dhaka", end of line
     [str |-> <<66, 97, 110, 97, 110, 105, 44, 32, 68, 104, 97, 107, 97>>,
      hasEOL |-> TRUE]
  >>

\* in an upload, the boundary between two files
FILEBREAK == 0

\* pagerender: each item gives s + eol, joined
Render(doc) ==
  LET go[k \in 1..(Len(doc) + 1)] ==
        IF k > Len(doc) THEN <<>>
        ELSE ITEMS[doc[k]].str \o (IF ITEMS[doc[k]].hasEOL THEN <<10>> ELSE <<32>>) \o go[k + 1]
  IN  go[1]

\* form.getAll("files"): the files of an upload, each a sequence of items
FilesOf(upload) == IF upload = <<>> THEN <<>> ELSE SplitOn(upload, FILEBREAK)

\* (data.text ?? "").split("\f")
PagesOf(doc) == SplitOn(Render(doc), 12)

\* primary.name || primary.phone || primary.address ? primary : fallbackParse(block)
PrimaryOr(block, primary) ==
  IF Truthy(primary.name) \/ Truthy(primary.phone) \/ Truthy(primary.address)
  THEN primary ELSE fallbackParse(block)

\* lines 142-146
Parse(block) == PrimaryOr(block, parseInvoiceToBlock(block))

\* lines 149-152: clean & normalize outputs
Cleaned(page, parsed, total) ==
  [name    |-> tidyBn(parsed.name),
   phone   |-> Trim(IF parsed.phone = Null THEN <<>> ELSE parsed.phone),
   address |-> tidyBn(parsed.address),
   value   |-> IF total # Null THEN total ELSE extractTotal(page)]

\* the four fields of a block of the page
Fields(block, page) == Cleaned(page, Parse(block), extractTotal(block))

\* rows.push also when all four fields are empty
ShouldEmitAny(f) == ~isInvoiceName(f.name)

\* !isInvoiceName && (name || phone || address || value)
ShouldEmit(f) ==
  /\ ~isInvoiceName(f.name)
  /\ Truthy(f.name) \/ Truthy(f.phone) \/ Truthy(f.address) \/ Truthy(f.value)

\* x || undefined
OrUndefined(x) == IF Truthy(x) THEN x ELSE Null

\* the row pushed for a block; block is the position of the block in its page
\* (kept for the ordering properties, not part of the response)
Row(source, page, block, f) ==
  [source |-> source, page |-> page, block |-> block,
   name |-> OrUndefined(f.name), phone |-> OrUndefined(f.phone),
   address |-> OrUndefined(f.address), value |-> OrUndefined(f.value)]

\* rows.unshift(row)
PushFront(rs, row) == <<row>> \o rs

\* rows.push(row)
Push(rs, row) == Append(rs, row)

\* no file is open: for (const f of files) takes the next file and reads its pages
ReadFile ==
  /\ pc = "file" /\ fi <= Len(files)
  /\ pages' = PagesOf(files[fi])
  /\ pi' = 1
  /\ pc' = "page"
  /\ UNCHANGED <<files, fi, pageText, work, bi, rows, seen, inp, out, prev>>

\* pages.forEach: normalize the next page and split it into blocks
StartPage ==
  /\ pc = "page" /\ pi <= Len(pages)
  /\ pageText' = NormalizePage(pages[pi])
  /\ work' = BlocksOf(pageText')
  /\ bi' = 1
  /\ pc' = "block"
  /\ UNCHANGED <<files, fi, pages, pi, rows, seen, inp, out, prev>>

\* for (const block of work): parse the next block, clean its fields, push its row
ProcessBlock ==
  /\ pc = "block" /\ bi <= Len(work)
  /\ \E f \in {Fields(work[bi], pageText)} :
       /\ rows' = IF ShouldEmit(f) THEN Push(rows, Row(fi, pi, bi, f)) ELSE rows
       /\ seen' = Append(seen, [source |-> fi, page |-> pi, block |-> bi,
                                text |-> work[bi], fields |-> f])
  /\ bi' = bi + 1
  /\ UNCHANGED <<files, fi, pages, pi, pageText, work, inp, out, prev, pc>>

\* the blocks of the page are done
EndPage ==
  /\ pc = "block" /\ bi > Len(work)
  /\ pi' = pi + 1
  /\ pc' = "page"
  /\ UNCHANGED <<files, fi, pages, pageText, work, bi, rows, seen, inp, out, prev>>

\* the pages of the file are done
EndFile ==
  /\ pc = "page" /\ pi > Len(pages)
  /\ fi' = fi + 1
  /\ pc' = "file"
  /\ UNCHANGED <<files, pages, pi, pageText, work, bi, rows, seen, inp, out, prev>>

\* return NextResponse.json({ rows }), also when there are no files
Respond ==
  /\ pc = "file" /\ fi > Len(files)
  /\ pc' = "done"
  /\ UNCHANGED <<files, fi, pages, pi, pageText, work, bi, rows, seen, inp, out, prev>>

\* the longest upload, counted in items and file boundaries
MaxItems == 4

\* the items the uploads are drawn from
FreeItems == 1..7

\* the sequences over S of length at most n
SeqUpTo(S, n) == UNION {[1..k -> S] : k \in 0..n}

\* the uploads: any items, in any number of files
Uploads == SeqUpTo(FreeItems \cup {FILEBREAK}, MaxItems)

\* the state when POST is entered with the files of upload
Entered(upload) ==
  /\ files = FilesOf(upload)
  /\ fi = 1 /\ pages = <<>> /\ pi = 1 /\ pageText = <<>> /\ work = <<>> /\ bi = 1
  /\ rows = <<>> /\ seen = <<>>
  /\ inp = <<>> /\ out = <<>> /\ prev = <<>>
  /\ pc = "file"

Init == \E upload \in Uploads : Entered(upload)

Next == ReadFile \/ StartPage \/ ProcessBlock \/ EndPage \/ EndFile \/ Respond

Spec == Init /\ [][Next]_vars

(***************************************************************************)
(* The same loop on the layouts of the scenarios                           *)
(***************************************************************************)

\* marked layout: "Invoice To:" (item 1), a name, a phone, an address, a
\* trailing field label and, or not, the total "Total: ৳970" (item 5)
MarkedDocs ==
  {<<1, n, p, a, l>> \o r :
     n \in {2, 3, 12}, p \in {4, 11}, a \in {8, 13}, l \in {9, 10}, r \in {<<>>, <<5>>}}

\* unmarked layout: a line "Name: N" (item 14 and a name) and a line
\* "Address: A" (item 17 and an address)
LabelledDocs == {<<14, n, 17, a>> : n \in {15, 16}, a \in {18, 19}}

InitScenario == \E doc \in MarkedDocs \cup LabelledDocs : Entered(doc)

SpecScenario == InitScenario /\ [][Next]_vars

(***************************************************************************)
(* Claims about the extraction loop                                        *)
(***************************************************************************)

\* the rows pushed for the block of the history entry e
RowsOf(e) ==
  {k \in 1..Len(rows) :
     rows[k].source = e.source /\ rows[k].page = e.page /\ rows[k].block = e.block}

\* the four cleaned fields f are all empty
AllEmpty(f) ==
  ~Truthy(f.name) /\ ~Truthy(f.phone) /\ ~Truthy(f.address) /\ ~Truthy(f.value)

\* C1: every record pushed to the result has at least one of name, phone,
\* address, value non-empty: a record whose four fields are all absent or
\* empty is never emitted.
C1_NoEmptyRecord ==
  \A k \in 1..Len(rows) :
    Truthy(rows[k].name) \/ Truthy(rows[k].phone)
      \/ Truthy(rows[k].address) \/ Truthy(rows[k].value)

\* C1 happens: a block whose four fields are all empty was processed and gave
\* no row, after another block gave one
C1_Witness ==
  /\ rows # <<>>
  /\ \E k \in 1..Len(seen) : AllEmpty(seen[k].fields) /\ RowsOf(seen[k]) = {}

\* n is "invoice" in any letter case, optionally preceded by digits
NameIsInvoice(n) ==
  \E d \in 0..Len(n) :
    /\ \A k \in 1..d : IsDigit(n[k])
    /\ Len(n) = d + 7
    /\ \A k \in 1..7 : ToLower(n[d + k]) = LitInvoice[k]

\* the name of the block is "invoice" and it has no other field
InvoiceOnly(f) ==
  NameIsInvoice(f.name) /\ ~Truthy(f.phone) /\ ~Truthy(f.address) /\ ~Truthy(f.value)

\* C2: if the cleaned name of a block equals "invoice" ignoring case,
\* optionally preceded by digits, and phone, address and value are all empty,
\* no record is emitted for that block.
C2_InvoiceOnlyDropped ==
  \A k \in 1..Len(seen) : InvoiceOnly(seen[k].fields) => RowsOf(seen[k]) = {}

\* C2 happens: such a block was processed (Scenario D: the name "Invoice" alone)
C2_Witness ==
  \E k \in 1..Len(seen) :
    /\ InvoiceOnly(seen[k].fields)
    /\ seen[k].fields.name = <<73, 110, 118, 111, 105, 99, 101>>
    /\ RowsOf(seen[k]) = {}

\* C7: in the records of one document, page numbers never decrease, and the
\* records of one page are in the order of their blocks: no later block's
\* record stands before an earlier block's record.
C7_RowsInPageAndBlockOrder ==
  \A i \in 1..Len(rows) : \A j \in (i + 1)..Len(rows) :
    rows[i].source = rows[j].source =>
      /\ rows[i].page <= rows[j].page
      /\ rows[i].page = rows[j].page => rows[i].block < rows[j].block

\* C7 happens: one document gave two records on one page and a third on a
\* later page
C7_Witness ==
  \E i \in 1..Len(rows) : \E j \in (i + 1)..Len(rows) : \E k \in (j + 1)..Len(rows) :
    /\ rows[i].source = rows[j].source /\ rows[j].source = rows[k].source
    /\ rows[i].page = rows[j].page /\ rows[i].block < rows[j].block
    /\ rows[j].page < rows[k].page

\* the texts that follow the markers of a page, each up to the next marker
FollowingTexts(text) == TrimmedNonEmpty(Tail(SplitOnMarker(text)))

\* the blocks C10 describes: one per non-blank text that follows a marker, in
\* order (the page itself when nothing follows any marker)
MarkerBlocks(text) ==
  IF FollowingTexts(text) = <<>> THEN <<text>>
  ELSE [k \in 1..Len(FollowingTexts(text)) |-> InvoiceToPrefix \o FollowingTexts(text)[k]]

\* C10: on a page that contains a marker, the blocks handed to the parsers are
\* exactly the texts that follow each marker, in order; the text before the
\* first marker forms no block of its own.
C10_BlocksFollowMarkers ==
  (pc = "block" /\ Len(SplitOnMarker(pageText)) >= 2) => work = MarkerBlocks(pageText)

\* the one row C8 describes for the document <<"Name:", n, "Address:", a>>
LabelledRow(doc) ==
  [source |-> 1, page |-> 1, block |-> 1,
   name |-> ITEMS[doc[2]].str, phone |-> Null,
   address |-> ITEMS[doc[4]].str, value |-> Null]

\* C8: a page without marker made of a line "Name: N" and a line "Address: A",
\* with no phone and no amount, gives exactly one record, with name N, address
\* A (without its label) and neither phone nor value.
C8_LabelledPageRecord ==
  (pc = "done" /\ files[1] \in LabelledDocs) => rows = <<LabelledRow(files[1])>>

\* the one row C9 describes for a document of the marked layout
MarkedRow(doc) ==
  [source |-> 1, page |-> 1, block |-> 1,
   name |-> ITEMS[doc[2]].str, phone |-> ITEMS[doc[3]].str,
   address |-> ITEMS[doc[4]].str,
   value |-> IF Len(doc) = 6 THEN <<2547, 57, 55, 48>> ELSE Null]

\* C9: a marked block "Invoice To: " + name + phone + address + trailing-field
\* label + rest gives the record with the name before the phone, the phone,
\* and as address exactly the text between the phone and the label.
C9_MarkedBlockRecord ==
  (pc = "done" /\ files[1] \in MarkedDocs) => rows = <<MarkedRow(files[1])>>

(***************************************************************************)
(* Page normalization applied twice                                        *)
(***************************************************************************)

\* the fragments the raw page texts are made of:
\*   1: "a"
\*   2: a space
\*   3: a newline
\*   4: "1"
\*   5: "."
\*   6: "("
\*   7: ")"
\*   8: the Bangla letter ka
\*   9: the zero width joiner
\*   10: "b c"
\*   11: "e" and the combining acute accent
FRAGMENTS ==
  <<
     <<97>>,
     <<32>>,
     <<10>>,
     <<49>>,
     <<46>>,
     <<40>>,
     <<41>>,
     <<2453>>,
     <<8205>>,
     <<98, 32, 99>>,
     <<101, 769>>
  >>

\* the longest raw page text, in fragments
MaxFragments == 4

\* the texts of the elements of ids, one after the other
Concat(table, ids) ==
  LET go[k \in 1..(Len(ids) + 1)] ==
        IF k > Len(ids) THEN <<>> ELSE table[ids[k]] \o go[k + 1]
  IN  go[1]

\* no upload: the variables of the loop at rest
NoUpload ==
  /\ files = <<>> /\ fi = 1 /\ pages = <<>> /\ pi = 1 /\ pageText = <<>>
  /\ work = <<>> /\ bi = 1 /\ rows = <<>> /\ seen = <<>>

InitNorm ==
  /\ NoUpload
  /\ \E ids \in SeqUpTo(1..Len(FRAGMENTS), MaxFragments) : inp = Concat(FRAGMENTS, ids)
  /\ out = <<>> /\ prev = <<>>
  /\ pc = "raw"

\* lines 110-128 on the raw page text
NormalizeOnce ==
  /\ pc = "raw"
  /\ out' = NormalizePage(inp)
  /\ pc' = "once"
  /\ UNCHANGED <<files, fi, pages, pi, pageText, work, bi, rows, seen, inp, prev>>

\* lines 110-128 again, on the normalized text
NormalizeTwice ==
  /\ pc = "once"
  /\ prev' = out
  /\ out' = NormalizePage(out)
  /\ pc' = "twice"
  /\ UNCHANGED <<files, fi, pages, pi, pageText, work, bi, rows, seen, inp>>

NextNorm == NormalizeOnce \/ NormalizeTwice

SpecNorm == InitNorm /\ [][NextNorm]_vars

\* C6: page normalization is idempotent: normalizing the normalized text again
\* gives the same string, normalize(normalize(x)) = normalize(x).
C6_NormalizeIdempotent == pc = "twice" => out = prev

\* C6 happens: "a b c(" was changed by the first normalization (the spaced
\* run collapsed) and not by the second
C6_Witness ==
  /\ pc = "twice"
  /\ inp = <<97, 32, 98, 32, 99, 40>>
  /\ prev = <<97, 98, 99, 40>>
  /\ out = prev

(***************************************************************************)
(* extractTotal on texts made of amounts and labels                        *)
(***************************************************************************)

\* the items the texts are made of
TOTAL_ITEMS ==
  <<
     \* 1: "Total: 100"
     <<84, 111, 116, 97, 108, 58, 32, 49, 48, 48>>,
     \* 2: "Total: ৳970"
     <<84, 111, 116, 97, 108, 58, 32, 2547, 57, 55, 48>>,
     \* 3: "TOTAL - Tk 1,250.50"
     <<84, 79, 84, 65, 76, 32, 45, 32, 84, 107, 32, 49, 44, 50, 53, 48, 46, 53, 48>>,
     \* 4: "Tk 1,250.50"
     <<84, 107, 32, 49, 44, 50, 53, 48, 46, 53, 48>>,
     \* 5: "bdt 5.5"
     <<98, 100, 116, 32, 53, 46, 53>>,
     \* 6: "Sub Total, Tax"
     <<83, 117, 98, 32, 84, 111, 116, 97, 108, 44, 32, 84, 97, 120>>,
     \* 7: "Order ID: 99"
     <<79, 114, 100, 101, 114, 32, 73, 68, 58, 32, 57, 57>>,
     \* 8: "Tk 12.345"
     <<84, 107, 32, 49, 50, 46, 51, 52, 53>>
  >>

\* the longest text, in items
MaxTotalItems == 3

InitTotal ==
  /\ NoUpload
  /\ inp \in SeqUpTo(1..Len(TOTAL_ITEMS), MaxTotalItems)
  /\ out = <<>> /\ prev = <<>>
  /\ pc = "text"

\* the text of the items, separated by spaces
TotalText(ids) == Join([k \in 1..Len(ids) |-> TOTAL_ITEMS[ids[k]]], <<32>>)

\* extractTotal(block)
ExtractTotal ==
  /\ pc = "text"
  /\ out' = extractTotal(TotalText(inp))
  /\ pc' = "done"
  /\ UNCHANGED <<files, fi, pages, pi, pageText, work, bi, rows, seen, inp, prev>>

NextTotal == ExtractTotal

SpecTotal == InitTotal /\ [][NextTotal]_vars

\* the items that are a "Total" label followed by a numeric amount
LabelledAmounts == {1, 2, 3}

\* the items that are an amount, labelled or not
Amounts == {1, 2, 3, 4, 5}

\* the normalized amount of each item of Amounts
AMOUNT_OF ==
  <<
     \* "Total: 100" is the amount "৳100"
     <<2547, 49, 48, 48>>,
     \* "Total: ৳970" is the amount "৳970"
     <<2547, 57, 55, 48>>,
     \* "TOTAL - Tk 1,250.50" is the amount "Tk1250.50"
     <<84, 107, 49, 50, 53, 48, 46, 53, 48>>,
     \* "Tk 1,250.50" is the amount "Tk1250.50"
     <<84, 107, 49, 50, 53, 48, 46, 53, 48>>,
     \* "bdt 5.5" is the amount "bdt5.5"
     <<98, 100, 116, 53, 46, 53>>
  >>

\* the position of the last labelled amount of ids
LastLabelled(ids) ==
  CHOOSE k \in 1..Len(ids) :
    ids[k] \in LabelledAmounts /\ \A j \in (k + 1)..Len(ids) : ids[j] \notin LabelledAmounts

\* C3: for every text with one or more "Total" labels followed by a numeric
\* amount, extractTotal returns the normalized amount of the last of them.
C3_LastTotalWins ==
  (pc = "done" /\ \E k \in 1..Len(inp) : inp[k] \in LabelledAmounts)
    => out = AMOUNT_OF[inp[LastLabelled(inp)]]

\* v is a currency symbol or prefix (the taka sign, Tk or BDT, in the letter
\* case of the text) followed by digits and optionally a dot and 1-2 digits
IsCurrencyValue(v) ==
  \E n \in 1..3 :
    /\ Len(v) > n
    /\ \/ n = 1 /\ v[1] = 2547
       \/ n = 2 /\ <<ToLower(v[1]), ToLower(v[2])>> = <<116, 107>>
       \/ n = 3 /\ <<ToLower(v[1]), ToLower(v[2]), ToLower(v[3])>> = <<98, 100, 116>>
    /\ \E d \in (n + 1)..Len(v) :
         /\ \A k \in (n + 1)..d : IsDigit(v[k])
         /\ \/ d = Len(v)
            \/ /\ d + 2 <= Len(v) /\ Len(v) <= d + 3
               /\ v[d + 1] = 46
               /\ \A k \in (d + 2)..Len(v) : IsDigit(v[k])

\* the text holds one amount, and nothing else that looks like one
OneAmount(ids) ==
  /\ Cardinality({k \in 1..Len(ids) : ids[k] \in Amounts}) = 1
  /\ \A k \in 1..Len(ids) : ids[k] \in Amounts \cup {7}

CANONICAL_NUMBERS ==
  <<
     \* "01712345678"
     <<48, 49, 55, 49, 50, 51, 52, 53, 54, 55, 56>>,
     \* "8801712345678"
     <<56, 56, 48, 49, 55, 49, 50, 51, 52, 53, 54, 55, 56>>,
     \* "+8801712345678"
     <<43, 56, 56, 48, 49, 55, 49, 50, 51, 52, 53, 54, 55, 56>>,
     \* "01398765432"
     <<48, 49, 51, 57, 56, 55, 54, 53, 52, 51, 50>>,
     \* "8801398765432"
     <<56, 56, 48, 49, 51, 57, 56, 55, 54, 53, 52, 51, 50>>,
     \* "+8801398765432"
     <<43, 56, 56, 48, 49, 51, 57, 56, 55, 54, 53, 52, 51, 50>>
  >>

\* the whitespace inserted: a space, a newline, a space and a tab
GAPS == <<<<32>>, <<10>>, <<32, 9>>>>

\* the most places of one number where whitespace is inserted
MaxGaps == 2

\* canon with the whitespace ws inserted after each position of at
Spaced(canon, at, ws) ==
  LET go[k \in 1..(Len(canon) + 1)] ==
        IF k > Len(canon) THEN <<>>
        ELSE <<canon[k]>> \o (IF k \in at THEN ws ELSE <<>>) \o go[k + 1]
  IN  go[1]

InitPhone ==
  /\ NoUpload
  /\ \E n \in 1..Len(CANONICAL_NUMBERS) : \E g \in 1..Len(GAPS) :
       \E at \in SUBSET (1..(Len(CANONICAL_NUMBERS[n]) - 1)) :
         /\ Cardinality(at) <= MaxGaps
         /\ inp = [canon |-> CANONICAL_NUMBERS[n], at |-> at, ws |-> GAPS[g]]
  /\ out = <<>> /\ prev = <<>>
  /\ pc = "number"

\* findFuzzyPhoneSpan on the number written with whitespace
MatchSpaced ==
  /\ pc = "number"
  /\ out' = findFuzzyPhoneSpan(Spaced(inp.canon, inp.at, inp.ws))
  /\ pc' = "spaced"
  /\ UNCHANGED <<files, fi, pages, pi, pageText, work, bi, rows, seen, inp, prev>>

\* findFuzzyPhoneSpan on the number as it is
MatchPlain ==
  /\ pc = "spaced"
  /\ prev' = findFuzzyPhoneSpan(inp.canon)
  /\ pc' = "done"
  /\ UNCHANGED <<files, fi, pages, pi, pageText, work, bi, rows, seen, inp, out>>

NextPhone == MatchSpaced \/ MatchPlain

SpecPhone == InitPhone /\ [][NextPhone]_vars

BEFORE_WORDS ==
  <<
     \* "John"
     <<74, 111, 104, 110>>,
     \* "Doe"
     <<68, 111, 101>>,
     \* "5B"
     <<53, 66>>,
     \* "A,"
     <<65, 44>>,
     \* a newline
     <<10>>,
     \* "Begum"
     <<66, 101, 103, 117, 109>>
  >>

\* the texts after the phone
AFTER_TEXTS ==
  <<
     \* "House 5, Dhaka"
     <<72, 111, 117, 115, 101, 32, 53, 44, 32, 68, 104, 97, 107, 97>>,
     \* "Mirpur Order ID: 9"
     <<77, 105, 114, 112, 117, 114, 32, 79, 114, 100, 101, 114, 32, 73, 68, 58, 32, 57>>
  >>

\* the most words before the phone
MaxBeforeWords == 3

\* the words of ids, separated by spaces
BeforeText(ids) == Join([k \in 1..Len(ids) |-> BEFORE_WORDS[ids[k]]], <<32>>)

\* the block: the marker, the text before the phone, the phone, the text after
BlockOf(b) ==
  InvoiceToPrefix \o BeforeText(b.words) \o <<32>> \o b.phone \o <<32>> \o b.after

InitPrimary ==
  /\ NoUpload
  /\ \E ws \in SeqUpTo(1..Len(BEFORE_WORDS), MaxBeforeWords) :
       \E n \in {1, 3} : \E a \in 1..Len(AFTER_TEXTS) :
         inp = [words |-> ws, phone |-> CANONICAL_NUMBERS[n], after |-> AFTER_TEXTS[a]]
  /\ out = <<>> /\ prev = <<>>
  /\ pc = "block text"

\* parseInvoiceToBlock(block)
ParseBlock ==
  /\ pc = "block text"
  /\ out' = parseInvoiceToBlock(BlockOf(inp))
  /\ pc' = "parsed"
  /\ UNCHANGED <<files, fi, pages, pi, pageText, work, bi, rows, seen, inp, prev>>

NextPrimary == ParseBlock

SpecPrimary == InitPrimary /\ [][NextPrimary]_vars

\* the name C11 describes for the text before the phone
NameShapedOrFirstLine(before, lines) ==
  IF Len(lines) > 1 THEN Trim(lines[1])
  ELSE IF looksLikeName(before) THEN before ELSE Null

\* C11: in parseInvoiceToBlock, when a phone is found and the text before it is
\* a single line, that text is the name only if it looks name-shaped, and the
\* name is null otherwise; when the text before the phone has several lines,
\* the name is its first line.
C11_NameOnlyIfNameShaped ==
  (pc = "parsed" /\ out.phone # Null) =>
    out.name = NameShapedOrFirstLine(Trim(BeforeText(inp.words)),
                                     SplitOn(Trim(BeforeText(inp.words)), 10))

(***************************************************************************)
(* The spaced-Latin-run step on phrases                                    *)
(***************************************************************************)

\* the fragments the phrases are made of
PHRASE_FRAGMENTS ==
  <<
     \* "House"
     <<72, 111, 117, 115, 101>>,
     \* "A"
     <<65>>,
     \* "Road"
     <<82, 111, 97, 100>>,
     \* "b"
     <<98>>,
     \* a space
     <<32>>,
     \* a newline
     <<10>>
  >>

\* the longest phrase, in fragments
MaxPhraseFragments == 5

InitPhrase ==
  /\ NoUpload
  /\ \E ids \in SeqUpTo(1..Len(PHRASE_FRAGMENTS), MaxPhraseFragments) :
       inp = Concat(PHRASE_FRAGMENTS, ids)
  /\ out = <<>> /\ prev = <<>>
  /\ pc = "phrase"

\* line 113-115 on the phrase
CollapsePhrase ==
  /\ pc = "phrase"
  /\ out' = CollapseSpacedLatin(inp)
  /\ pc' = "collapsed"
  /\ UNCHANGED <<files, fi, pages, pi, pageText, work, bi, rows, seen, inp, prev>>

NextPhrase == CollapsePhrase

SpecPhrase == InitPhrase /\ [][NextPhrase]_vars

\* the positions of s that are missing from t, t being s with code units deleted
Removed(s, t) ==
  LET go[i \in 1..(Len(s) + 1), j \in 1..(Len(t) + 1)] ==
        IF i > Len(s) THEN {}
        ELSE IF j <= Len(t) /\ s[i] = t[j] THEN go[i + 1, j + 1]
        ELSE {i} \cup go[i + 1, j]
  IN  go[1, 1]

\* position i of s is a Latin letter that stands alone: a word of one letter
IsSingleLetter(s, i) ==
  /\ i >= 1 /\ i <= Len(s) /\ IsLatin(s[i])
  /\ i = 1 \/ IsWs(s[i - 1])
  /\ i = Len(s) \/ IsWs(s[i + 1])

\* position i of s is whitespace between two words of one letter
BetweenSingleLetters(s, i) ==
  /\ IsWs(s[i])
  /\ \E l \in 1..(i - 1) : \E r \in (i + 1)..Len(s) :
       /\ \A k \in (l + 1)..(r - 1) : IsWs(s[k])
       /\ IsSingleLetter(s, l) /\ IsSingleLetter(s, r)

\* C12: the spaced-Latin-run step removes whitespace only inside a run of single
\* Latin letters separated by whitespace; it never removes whitespace that is
\* adjacent to a word of two or more letters ("House A Road" keeps its spaces).
C12_OnlySingleLetterGaps ==
  pc = "collapsed" => \A i \in Removed(inp, out) : BetweenSingleLetters(inp, i)

(***************************************************************************)
(* The "invoice" drop rule on blocks with other fields                     *)
(***************************************************************************)

\* the name of the block is "invoice" and it has another field
InvoiceWithFields(f) ==
  NameIsInvoice(f.name) /\ (Truthy(f.phone) \/ Truthy(f.address) \/ Truthy(f.value))

\* row r carries the populated fields of f other than the name
CarriesFields(r, f) ==
  /\ r.phone = (IF Truthy(f.phone) THEN f.phone ELSE Null)
  /\ r.address = (IF Truthy(f.address) THEN f.address ELSE Null)
  /\ r.value = (IF Truthy(f.value) THEN f.value ELSE Null)

\* C13: the "invoice" drop rule applies only when no other field is present:
\* for every block whose cleaned name equals "invoice" (optionally preceded by
\* digits) and whose phone, address or value is not empty, a record is emitted
\* that carries the populated fields.
C13_InvoiceWithFieldsEmitted ==
  \A k \in 1..Len(seen) :
    InvoiceWithFields(seen[k].fields) =>
      \E r \in RowsOf(seen[k]) : CarriesFields(rows[r], seen[k].fields)

====
